---- MODULE Spec2Model ----
(***************************************************************************)
(* Model of the realtime client of SocialSync: the useWebSocket hook       *)
(* (connection lifecycle, reconnect backoff, send operations, inbound      *)
(* dispatch, presence and typing state), the conversation id of the chat   *)
(* views, and the video call button with its modal (media, signaling       *)
(* socket, peer connection).                                               *)
(*                                                                         *)
(* A WebSocket is an object with a readyState; the browser delivers its    *)
(* open/close/message events as separate tasks, so every handler is one    *)
(* action.  ws.close() only moves the socket to CLOSING; the close event   *)
(* (and with it ws.onclose) is delivered later.  Timers are untimed: a     *)
(* pending timer may fire at any moment, its delay is kept as data.        *)
(***************************************************************************)
EXTENDS Integers, Sequences, FiniteSets, TLC

\* ---------------------------------------------------------------- bounds
MaxUser    == 1   \* identities 1..MaxUser the session can be logged in as
MaxPeer    == 3   \* user ids 1..MaxPeer named by presence and typing events
MaxEpoch   == 3   \* number of times the initialize effect may run
MaxSent    == 2   \* envelopes recorded per transport
MaxConv    == 2   \* conversation ids 1..MaxConv
MaxHandler == 2   \* distinct handler functions h1..h_MaxHandler
MaxPayload == 1   \* distinct opaque payloads carried by forwarded envelopes
MaxUserId  == 17  \* numeric user ids 1..MaxUserId seen by the chat views
MaxCall    == 2   \* number of times the call modal may be opened
MaxPc      == 1   \* RTCPeerConnection objects that may be created
MaxCand    == 2   \* distinct remote ICE candidates
MaxKeys    == 3   \* keystrokes of one typing burst
MaxLocalCand == 2 \* local ICE candidates one peer connection discovers

\* ------------------------------------------------------ program constants
maxReconnectAttempts == 5
BaseDelayMs          == 1000
CapDelayMs           == 10000
TypingStopDelayMs    == 2000

NoUser  == 0      \* useAuth() returned no user
OtherUser == 2    \* otherUser.id, the peer of the call
NullRef == 0      \* a ref holding null / undefined

Users     == 1..MaxUser
Peers     == 1..MaxPeer
Slots     == 1..(MaxEpoch + 1)  \* WebSocket objects that can be alive at once
TimerIds  == 1..MaxEpoch        \* setTimeout handles that can be pending at once
Convs     == 1..MaxConv
Handlers  == 1..MaxHandler
Payloads  == 1..MaxPayload
UserIds   == 1..MaxUserId
Flows     == 1..MaxCall         \* openings of the modal, each with at most one run of initializeMedia
Pcs       == 1..MaxPc
Cands     == 1..MaxCand
Views     == {"FriendChat", "RealTimeChat"}
StopTimerIds == 1..2            \* setTimeout handles of one view's stop timer

\* ------------------------------------------------------------------ state
VARIABLES
    user,                 \* useAuth().user of the latest render (NoUser = null)
    effectActive,         \* the initialize effect has run and is not cleaned up
    epoch,                \* how many times the initialize effect has run
    sockets,              \* slot -> WebSocket object
    wsRef,                \* wsRef.current (slot or NullRef)
    isConnected,          \* isConnected state
    timers,               \* pending setTimeout callbacks
    reconnectTimeoutRef,  \* reconnectTimeoutRef.current (timer id or NullRef)
    reconnectAttempts,    \* reconnectAttempts.current
    lastError,            \* outcome of the latest send operation
    onlineUsers,          \* onlineUsers state (a Set)
    userStatuses,         \* userStatuses state (a Map, as a partial function)
    typingUsers,          \* typingUsers state (a Map conversation -> Set)
    messageHandlers,      \* messageHandlers.current (a Map type -> handler)
    calls,                \* handler invocations made by the latest inbound frame
    lastRegistration,     \* the latest onMessage / offMessage call and its arguments
    chatUser,             \* user.id seen by the chat view
    selectedFriend,       \* selectedFriend.id / selectedUser.id (NullRef = none selected)
    chatConversationId,   \* conversationId of the chat view's latest render
    isVideoCallOpen,      \* VideoCallButton isVideoCallOpen (the modal's isOpen)
    callType,             \* VideoCallButton callType (the modal's callType)
    modal,                \* VideoCallModal state: localStream, peerConnection,
                          \* websocket, callId, isCallActive
    effectSnap,           \* render values captured by the registered media effect
    flows,                \* run of initializeMedia -> its closure values, media
                          \* stream and signaling WebSocket
    pcs,                  \* RTCPeerConnection objects
    composer,             \* chat view -> isTyping, typingTimeoutRef, pending
                          \* stop timers and the typing calls of the burst
    lastSend              \* the latest handleSendMessage call and what it did

connVars == <<user, effectActive, epoch, sockets, wsRef, isConnected, timers,
              reconnectTimeoutRef, reconnectAttempts, lastError>>
msgVars  == <<onlineUsers, userStatuses, typingUsers, messageHandlers, calls,
             lastRegistration>>
chatVars == <<chatUser, selectedFriend, chatConversationId>>
callVars == <<isVideoCallOpen, callType, modal, effectSnap, flows, pcs>>
viewVars == <<composer, lastSend>>
vars     == <<connVars, msgVars, chatVars, callVars, viewVars>>

\* What the actions of one component leave alone.
notConn == <<msgVars, chatVars, callVars, viewVars>>
notMsg  == <<connVars, chatVars, callVars, viewVars>>
notChat == <<connVars, msgVars, callVars, viewVars>>
notCall == <<connVars, msgVars, chatVars, viewVars>>

\* ---------------------------------------------------------------- helpers
Min(a, b) == IF a < b THEN a ELSE b

RECURSIVE Pow2(_)
Pow2(n) == IF n = 0 THEN 1 ELSE 2 * Pow2(n - 1)

NoSocket == [state |-> "NONE", owner |-> NoUser, ep |-> 0, stale |-> FALSE, sent |-> <<>>]

\* A CLOSED WebSocket is observed through its readyState only.
ClosedSocket == [state |-> "CLOSED", owner |-> NoUser, ep |-> 0, stale |-> FALSE, sent |-> <<>>]

\* A slot can hold a new WebSocket when it never held one, or when the one it
\* held is CLOSED and no longer referenced by wsRef (garbage).
FreeSlots(socks, ref) ==
    {k \in Slots : socks[k].state = "NONE" \/ (socks[k].state = "CLOSED" /\ k # ref)}

NewSlot(socks, ref) == CHOOSE k \in FreeSlots(socks, ref) : \A j \in FreeSlots(socks, ref) : k <= j

NewTimerId(ts) ==
    CHOOSE i \in TimerIds : i \notin {t.id : t \in ts}
                            /\ \A j \in TimerIds : j \notin {t.id : t \in ts} => i <= j

\* ws.send(frame): only an OPEN transport transmits.
Transmit(socks, k, env) == [socks EXCEPT ![k].sent = Append(@, env)]

IsOpen(ref) == ref # NullRef /\ sockets[ref].state = "OPEN"

\* ------------------------------------------------------- connect (34-81)
\* delay = Math.min(1000 * Math.pow(2, attempts), 10000)
ReconnectDelayUncapped(n) == BaseDelayMs * Pow2(n)
ReconnectDelay(n) == Min(BaseDelayMs * Pow2(n), CapDelayMs)

\* connect() of the closure that captured user u, created by effect run e:
\* returns the new <<sockets, wsRef>>.
ConnectResult(socks, ref, u, e, isStale) ==
    IF u = NoUser
    THEN <<socks, ref>>
    ELSE LET k == NewSlot(socks, ref)
         IN  <<[socks EXCEPT ![k] = [state |-> "CONNECTING", owner |-> u, ep |-> e,
                                     stale |-> isStale, sent |-> <<>>]],
               k>>

CanConnect(socks, ref) == FreeSlots(socks, ref) # {}

\* ws.onopen
OnOpenKeepAttempts(k) ==
    /\ sockets[k].state = "CONNECTING"
    /\ isConnected' = TRUE
    /\ UNCHANGED reconnectAttempts
    /\ sockets' = Transmit([sockets EXCEPT ![k].state = "OPEN"], k,
                           [type |-> "join", userId |-> sockets[k].owner])
    /\ UNCHANGED <<user, effectActive, epoch, wsRef, timers, reconnectTimeoutRef, lastError>>
    /\ UNCHANGED notConn

OnOpen(k) ==
    /\ sockets[k].state = "CONNECTING"
    /\ isConnected' = TRUE
    /\ reconnectAttempts' = 0
    /\ sockets' = Transmit([sockets EXCEPT ![k].state = "OPEN"], k,
                           [type |-> "join", userId |-> sockets[k].owner])
    /\ UNCHANGED <<user, effectActive, epoch, wsRef, timers, reconnectTimeoutRef, lastError>>
    /\ UNCHANGED notConn

\* ws.onclose: the close event of transport k is delivered (after a failed
\* connect, a drop of an open transport, or an earlier ws.close()).
OnCloseRetryForever(k) ==
    /\ sockets[k].state \in {"CONNECTING", "OPEN", "CLOSING"}
    /\ sockets' = [sockets EXCEPT ![k] = ClosedSocket]
    /\ isConnected' = FALSE
    /\ Cardinality(timers) < Cardinality(TimerIds)
    /\ LET id == NewTimerId(timers)
       IN  /\ timers' = timers \cup {[id |-> id,
                                       delay |-> ReconnectDelay(reconnectAttempts),
                                       owner |-> sockets[k].owner,
                                       ep |-> sockets[k].ep]}
           /\ reconnectTimeoutRef' = id
    /\ UNCHANGED <<user, effectActive, epoch, wsRef, reconnectAttempts, lastError>>
    /\ UNCHANGED notConn

\* An onclose that also forgets who is online.
OnCloseClearsPresence(k) ==
    /\ sockets[k].state \in {"CONNECTING", "OPEN", "CLOSING"}
    /\ sockets' = [sockets EXCEPT ![k] = ClosedSocket]
    /\ isConnected' = FALSE
    /\ onlineUsers' = {}
    /\ IF reconnectAttempts < maxReconnectAttempts
       THEN /\ Cardinality(timers) < Cardinality(TimerIds)
            /\ LET id == NewTimerId(timers)
               IN  /\ timers' = timers \cup {[id |-> id,
                                               delay |-> ReconnectDelay(reconnectAttempts),
                                               owner |-> sockets[k].owner,
                                               ep |-> sockets[k].ep]}
                   /\ reconnectTimeoutRef' = id
       ELSE UNCHANGED <<timers, reconnectTimeoutRef>>
    /\ UNCHANGED <<user, effectActive, epoch, wsRef, reconnectAttempts, lastError>>
    /\ UNCHANGED <<userStatuses, typingUsers, messageHandlers, calls, lastRegistration>>
    /\ UNCHANGED <<chatVars, callVars, viewVars>>

OnClose(k) ==
    /\ sockets[k].state \in {"CONNECTING", "OPEN", "CLOSING"}
    /\ sockets' = [sockets EXCEPT ![k] = ClosedSocket]
    /\ isConnected' = FALSE
    /\ IF reconnectAttempts < maxReconnectAttempts
       THEN /\ Cardinality(timers) < Cardinality(TimerIds)
            /\ LET id == NewTimerId(timers)
               IN  /\ timers' = timers \cup {[id |-> id,
                                               delay |-> ReconnectDelay(reconnectAttempts),
                                               owner |-> sockets[k].owner,
                                               ep |-> sockets[k].ep]}
                   /\ reconnectTimeoutRef' = id
       ELSE UNCHANGED <<timers, reconnectTimeoutRef>>
    /\ UNCHANGED <<user, effectActive, epoch, wsRef, reconnectAttempts, lastError>>
    /\ UNCHANGED notConn

\* The reconnect timer callback: reconnectAttempts.current++; connect()
ReconnectTimerFires(t) ==
    /\ t \in timers
    /\ CanConnect(sockets, wsRef)
    /\ timers' = timers \ {t}
    /\ reconnectAttempts' = reconnectAttempts + 1
    /\ LET r == ConnectResult(sockets, wsRef, t.owner, t.ep,
                              ~effectActive \/ t.ep # epoch)
       IN  sockets' = r[1] /\ wsRef' = r[2]
    /\ UNCHANGED <<user, effectActive, epoch, isConnected, reconnectTimeoutRef, lastError>>
    /\ UNCHANGED notConn

\* ------------------------------------- initialize / cleanup effect (276-290)
\* clearTimeout(reconnectTimeoutRef.current)
ClearedTimers(ts, ref) == IF ref # NullRef THEN {t \in ts : t.id # ref} ELSE ts

\* wsRef.current.close(): CONNECTING or OPEN becomes CLOSING, the close event
\* follows later; closing a CLOSING or CLOSED transport does nothing.
ClosedSockets(socks, ref) ==
    IF ref # NullRef /\ socks[ref].state \in {"CONNECTING", "OPEN"}
    THEN [socks EXCEPT ![ref].state = "CLOSING"]
    ELSE socks

\* First run of the effect (mount): if (user) connect()
EffectMount ==
    /\ ~effectActive
    /\ epoch = 0
    /\ effectActive' = TRUE
    /\ epoch' = 1
    /\ LET r == ConnectResult(sockets, wsRef, user, 1, FALSE)
       IN  sockets' = r[1] /\ wsRef' = r[2]
    /\ UNCHANGED <<user, isConnected, timers, reconnectTimeoutRef, reconnectAttempts, lastError>>
    /\ UNCHANGED notConn

\* The user identity changes: the cleanup of the previous run, then the effect
\* runs again with the connect() of the new user.
EffectUserChange(u) ==
    /\ effectActive
    /\ u # user
    /\ epoch < MaxEpoch
    /\ user' = u
    /\ epoch' = epoch + 1
    /\ timers' = ClearedTimers(timers, reconnectTimeoutRef)
    /\ LET closed == ClosedSockets(sockets, wsRef)
           r      == ConnectResult(closed, wsRef, u, epoch + 1, FALSE)
       IN  /\ u # NoUser => CanConnect(closed, wsRef)
           /\ sockets' = r[1]
           /\ wsRef' = r[2]
    /\ UNCHANGED <<effectActive, isConnected, reconnectTimeoutRef, reconnectAttempts, lastError>>
    /\ UNCHANGED notConn

\* Unmount: the cleanup alone.
EffectCleanup ==
    /\ effectActive
    /\ effectActive' = FALSE
    /\ timers' = ClearedTimers(timers, reconnectTimeoutRef)
    /\ sockets' = ClosedSockets(sockets, wsRef)
    /\ UNCHANGED <<user, epoch, wsRef, isConnected, reconnectTimeoutRef, reconnectAttempts, lastError>>
    /\ UNCHANGED notConn

\* ------------------------------------------------ send operations (165-243)
CanRecord(ref) == ref # NullRef => Len(sockets[ref].sent) < MaxSent

\* sendMessage(receiverId, content): throws when the transport is absent or
\* not open, else transmits one 'message' envelope.
sendMessageUnguarded(receiverId, content) ==
    /\ wsRef # NullRef
    /\ sockets[wsRef].state # "NONE"
    /\ CanRecord(wsRef)
    /\ sockets' = Transmit(sockets, wsRef,
                           [type |-> "message",
                            data |-> [receiverId |-> receiverId, content |-> content]])
    /\ lastError' = "none"
    /\ UNCHANGED <<user, effectActive, epoch, wsRef, isConnected, timers,
                   reconnectTimeoutRef, reconnectAttempts>>
    /\ UNCHANGED notConn

sendMessage(receiverId, content) ==
    /\ IF ~IsOpen(wsRef)
       THEN /\ lastError' = "NotConnected"
            /\ UNCHANGED sockets
       ELSE /\ CanRecord(wsRef)
            /\ sockets' = Transmit(sockets, wsRef,
                                   [type |-> "message",
                                    data |-> [receiverId |-> receiverId, content |-> content]])
            /\ lastError' = "none"
    /\ UNCHANGED <<user, effectActive, epoch, wsRef, isConnected, timers,
                   reconnectTimeoutRef, reconnectAttempts>>
    /\ UNCHANGED notConn

\* The five best-effort senders: return silently unless the transport is open.
SilentSend(env) ==
    /\ IF ~IsOpen(wsRef)
       THEN UNCHANGED sockets
       ELSE /\ CanRecord(wsRef)
            /\ sockets' = Transmit(sockets, wsRef, env)
    /\ UNCHANGED <<user, effectActive, epoch, wsRef, isConnected, timers,
                   reconnectTimeoutRef, reconnectAttempts, lastError>>
    /\ UNCHANGED notConn

sendTypingIndicator(conversationId, isTyping) ==
    SilentSend([type |-> "typing",
                data |-> [conversationId |-> conversationId, isTyping |-> isTyping]])

sendReadReceipt(messageId, conversationId) ==
    SilentSend([type |-> "mark_read",
                data |-> [messageId |-> messageId, conversationId |-> conversationId]])

sendStatusUpdate(status) ==
    SilentSend([type |-> "status_update", data |-> [status |-> status]])

joinConversation(conversationId) ==
    SilentSend([type |-> "join_conversation", data |-> [conversationId |-> conversationId]])

leaveConversation(conversationId) ==
    SilentSend([type |-> "leave_conversation", data |-> [conversationId |-> conversationId]])

\* ------------------------------------------------ handleMessage (83-163)
EventStatuses == {"online", "away"}   \* statuses carried by user_status events

ForwardedTypes == {"message_read", "new_message", "message_sent", "new_notification"}
BuiltInTypes   == {"user_list", "online", "offline", "user_status", "typing"}
OtherTypes     == {"message", "offer"}   \* fall to the default branch

\* Map.set(k, v) and Map.delete(k) on a Map kept as a partial function
MapSet(m, k, v) == [x \in (DOMAIN m) \cup {k} |-> IF x = k THEN v ELSE m[x]]
MapDelete(m, k) == [x \in (DOMAIN m) \ {k} |-> m[x]]
EmptyMap == [x \in {} |-> 0]

\* case 'user_list': new Set(message.data.userIds || [])
RosterMerged(prev, data) ==
    IF "userIds" \in DOMAIN data THEN prev \cup data.userIds ELSE prev
Roster(prev, data) ==
    IF "userIds" \in DOMAIN data THEN data.userIds ELSE {}

\* case 'online'
OnlineReplaced(prev, userId) == {userId}
OnlineAdded(prev, userId) == prev \cup {userId}

\* case 'offline'
OfflineRemoved(prev, userId) == prev \ {userId}

OfflineStatusKept(prev, userId) == prev
OfflineStatus(prev, userId) == MapSet(prev, userId, "offline")

\* case 'user_status'
StatusSetAll(prev, userId, status) ==
    [x \in DOMAIN prev \cup {userId} |-> status]
StatusSet(prev, userId, status) == MapSet(prev, userId, status)

\* case 'typing'
TypingReplaced(prev, conversationId, userId, isTyping) ==
    IF isTyping
    THEN MapSet(prev, conversationId, {userId})
    ELSE MapDelete(prev, conversationId)
TypingKeepsEmpty(prev, conversationId, userId, isTyping) ==
    LET withKey == IF conversationId \in DOMAIN prev
                   THEN prev ELSE MapSet(prev, conversationId, {})
    IN  MapSet(withKey, conversationId,
               IF isTyping THEN withKey[conversationId] \cup {userId}
                           ELSE withKey[conversationId] \ {userId})
TypingUpdated(prev, conversationId, userId, isTyping) ==
    LET withKey   == IF conversationId \in DOMAIN prev
                     THEN prev ELSE MapSet(prev, conversationId, {})
        typingSet == IF isTyping
                     THEN withKey[conversationId] \cup {userId}
                     ELSE withKey[conversationId] \ {userId}
    IN  IF typingSet = {}
        THEN MapDelete(withKey, conversationId)
        ELSE MapSet(withKey, conversationId, typingSet)

\* cases 'message_read', 'new_message', 'message_sent', 'new_notification':
\* the invocations made (handler, argument), in order.
ForwardedAllTypes(handlers, message) ==
    IF message.type \in DOMAIN handlers
    THEN <<[h |-> handlers[message.type], data |-> message.data]>>
    ELSE <<>>
Forwarded(handlers, message) ==
    IF message.type \in ForwardedTypes /\ message.type \in DOMAIN handlers
    THEN <<[h |-> handlers[message.type], data |-> message.data]>>
    ELSE <<>>

handleMessage(message) ==
    /\ onlineUsers' =
          CASE message.type = "user_list" -> Roster(onlineUsers, message.data)
            [] message.type = "online"    -> OnlineAdded(onlineUsers, message.data.userId)
            [] message.type = "offline"   -> OfflineRemoved(onlineUsers, message.data.userId)
            [] OTHER                      -> onlineUsers
    /\ userStatuses' =
          CASE message.type = "offline"     -> OfflineStatus(userStatuses, message.data.userId)
            [] message.type = "user_status" -> StatusSet(userStatuses, message.data.userId,
                                                         message.data.status)
            [] OTHER                        -> userStatuses
    /\ typingUsers' =
          IF message.type = "typing"
          THEN TypingUpdated(typingUsers, message.data.conversationId,
                             message.data.userId, message.data.isTyping)
          ELSE typingUsers
    /\ calls' = Forwarded(messageHandlers, message)
    /\ UNCHANGED <<messageHandlers, lastRegistration>>

\* JSON.parse(event.data): a frame is either the text of an envelope or text
\* that does not parse (the catch branch logs and drops it).
JSONparse(frame) ==
    IF frame.valid THEN [type |-> frame.type, data |-> frame.data] ELSE "SyntaxError"

\* A ws.onmessage for which a frame it cannot route is fatal.
OnMessageFatal(k, frame) ==
    /\ sockets[k].state = "OPEN"
    /\ IF frame.valid /\ frame.type \in BuiltInTypes \cup ForwardedTypes
       THEN handleMessage(JSONparse(frame)) /\ UNCHANGED notMsg
       ELSE /\ calls' = <<>>
            /\ sockets' = [sockets EXCEPT ![k].state = "CLOSING"]
            /\ UNCHANGED <<onlineUsers, userStatuses, typingUsers, messageHandlers,
                           lastRegistration>>
            /\ UNCHANGED <<user, effectActive, epoch, wsRef, isConnected, timers,
                           reconnectTimeoutRef, reconnectAttempts, lastError>>
            /\ UNCHANGED <<chatVars, callVars, viewVars>>

\* ws.onmessage of transport k
OnMessage(k, frame) ==
    /\ sockets[k].state = "OPEN"
    /\ IF frame.valid
       THEN handleMessage(JSONparse(frame))
       ELSE /\ calls' = <<>>
            /\ UNCHANGED <<onlineUsers, userStatuses, typingUsers, messageHandlers,
                           lastRegistration>>
    /\ UNCHANGED notMsg

\* ----------------------------------------- onMessage / offMessage (245-253)
HandlersKeepFirst(handlers, type, handler) ==
    IF type \in DOMAIN handlers THEN handlers ELSE MapSet(handlers, type, handler)
HandlersSet(handlers, type, handler) == MapSet(handlers, type, handler)

HandlersDeleted(handlers, type) == MapDelete(handlers, type)

onMessage(type, handler) ==
    /\ messageHandlers' = HandlersSet(messageHandlers, type, handler)
    /\ lastRegistration' = [op |-> "onMessage", type |-> type, handler |-> handler]
    /\ UNCHANGED <<onlineUsers, userStatuses, typingUsers, calls>>
    /\ UNCHANGED notMsg

offMessage(type) ==
    /\ messageHandlers' = HandlersDeleted(messageHandlers, type)
    /\ lastRegistration' = [op |-> "offMessage", type |-> type, handler |-> 0]
    /\ UNCHANGED <<onlineUsers, userStatuses, typingUsers, calls>>
    /\ UNCHANGED notMsg

\* ------------------------------------------------------------ query surface
isUserTyping(conversationId, userId) ==
    IF conversationId \in DOMAIN typingUsers THEN userId \in typingUsers[conversationId] ELSE FALSE

getTypingUsers(conversationId) ==
    IF conversationId \in DOMAIN typingUsers THEN typingUsers[conversationId] ELSE {}

isUserOnline(userId) == userId \in onlineUsers

getUserStatus(userId) ==
    IF userId \in DOMAIN userStatuses THEN userStatuses[userId] ELSE "offline"

\* ------------------------------- conversation id of the chat views
\* (FriendChat 68-71, RealTimeChat 651-654)
\* Strings are sequences of one-character strings.
Digit(d) ==
    CASE d = 0 -> "0" [] d = 1 -> "1" [] d = 2 -> "2" [] d = 3 -> "3" [] d = 4 -> "4"
      [] d = 5 -> "5" [] d = 6 -> "6" [] d = 7 -> "7" [] d = 8 -> "8" [] d = 9 -> "9"

\* UTF-16 code unit of the characters that occur
CharCode(c) ==
    CASE c = "0" -> 48 [] c = "1" -> 49 [] c = "2" -> 50 [] c = "3" -> 51 [] c = "4" -> 52
      [] c = "5" -> 53 [] c = "6" -> 54 [] c = "7" -> 55 [] c = "8" -> 56 [] c = "9" -> 57
      [] c = "_" -> 95

\* Number.prototype.toString(): the decimal digits of a positive integer
RECURSIVE NumberToString(_)
NumberToString(n) ==
    IF n < 10 THEN <<Digit(n)>> ELSE Append(NumberToString(n \div 10), Digit(n % 10))

\* s < t on strings: by code units, a proper prefix is smaller
RECURSIVE StringLess(_, _)
StringLess(s, t) ==
    IF t = <<>> THEN FALSE
    ELSE IF s = <<>> THEN TRUE
    ELSE IF CharCode(Head(s)) # CharCode(Head(t)) THEN CharCode(Head(s)) < CharCode(Head(t))
    ELSE StringLess(Tail(s), Tail(t))

\* [x, y].sort() without a compare function: the elements are ordered by
\* their string conversions; equal ones keep their order.
SortPairUnsorted(x, y) == <<x, y>>
SortPair(x, y) ==
    IF StringLess(NumberToString(y), NumberToString(x)) THEN <<y, x>> ELSE <<x, y>>

\* [a, b].sort().join('_')
ConversationId(a, b) ==
    LET sorted == SortPair(a, b)
    IN  NumberToString(sorted[1]) \o <<"_">> \o NumberToString(sorted[2])

\* conversationId = selectedFriend && user ? [...].sort().join('_') : null
RenderedConversationId(userId, friendId) ==
    IF friendId # NullRef /\ userId # NoUser
    THEN ConversationId(userId, friendId)
    ELSE <<>>

\* A friend is selected (or the selection cleared) and the view renders.
SelectFriend(friendId) ==
    /\ selectedFriend' = friendId
    /\ chatConversationId' = RenderedConversationId(chatUser, friendId)
    /\ UNCHANGED chatUser
    /\ UNCHANGED notChat

\* useAuth() yields another user (or none) and the view renders.
ChatUserChange(userId) ==
    /\ chatUser' = userId
    /\ chatConversationId' = RenderedConversationId(userId, selectedFriend)
    /\ UNCHANGED selectedFriend
    /\ UNCHANGED notChat

\* ------------------------------------------ chat views: typing indicator
\* Each view keeps typingTimeoutRef and, in RealTimeChat only, the isTyping
\* state.  keys and calls describe the burst under way: the keystrokes since
\* the last keystroke that found no stop timer pending, and the isTyping
\* arguments handed to sendTypingIndicator since then.  owed holds the
\* conversations for which the view's latest transmitted typing envelope
\* said true.
NoComposer ==
    [isTyping |-> FALSE, typingTimeoutRef |-> NullRef, stopTimers |-> {},
     keys |-> 0, calls |-> <<>>, owed |-> {}]

\* The conversations left with a transmitted typing(true) after
\* sendTypingIndicator(conversationId, isTyping).
Owed(owed, conversationId, isTyping) ==
    IF ~IsOpen(wsRef) THEN owed
    ELSE IF isTyping THEN owed \cup {conversationId}
    ELSE owed \ {conversationId}

\* setTimeout returns a handle no pending timer and no ref holds.
NewStopTimer(cp) ==
    CHOOSE id \in StopTimerIds :
        id # cp.typingTimeoutRef /\ \A t \in cp.stopTimers : t.id # id

\* What sendTypingIndicator does to the transport.
TypingDelivered(conversationId, isTyping) ==
    IF IsOpen(wsRef)
    THEN Transmit(sockets, wsRef,
                  [type |-> "typing",
                   data |-> [conversationId |-> conversationId, isTyping |-> isTyping]])
    ELSE sockets

\* handleTyping(isTyping) of the render whose conversationId is given; only
\* RealTimeChat has the isTyping state.
handleTyping(v, cp, conversationId, isTyping) ==
    IF conversationId = NullRef
    THEN cp
    ELSE [cp EXCEPT !.isTyping = IF v = "RealTimeChat" THEN isTyping ELSE @,
                    !.calls = Append(@, isTyping),
                    !.owed = Owed(@, conversationId, isTyping)]

\* FriendChat calls handleTyping(true) on every change, RealTimeChat only
\* when isTyping is false.
SendsTypingTrue(v, cp) == v = "FriendChat" \/ ~cp.isTyping

\* handleMessageChange(value) in view v.
handleMessageChange(v, conversationId) ==
    LET cp      == composer[v]
        burst   == IF cp.stopTimers = {}
                   THEN [cp EXCEPT !.keys = 1, !.calls = <<>>]
                   ELSE [cp EXCEPT !.keys = @ + 1]
        typed   == IF SendsTypingTrue(v, cp)
                   THEN handleTyping(v, burst, conversationId, TRUE)
                   ELSE burst
        cleared == {t \in cp.stopTimers : t.id # cp.typingTimeoutRef}
        id      == NewStopTimer([cp EXCEPT !.stopTimers = cleared])
    IN  /\ burst.keys <= MaxKeys
        /\ SendsTypingTrue(v, cp) => CanRecord(wsRef)
        /\ composer' = [composer EXCEPT ![v] =
                           [typed EXCEPT !.typingTimeoutRef = id,
                                         !.stopTimers = cleared \cup
                                             {[id |-> id, conversationId |-> conversationId,
                                               delay |-> TypingStopDelayMs]}]]
        /\ sockets' = IF SendsTypingTrue(v, cp) /\ conversationId # NullRef
                      THEN TypingDelivered(conversationId, TRUE)
                      ELSE sockets
        /\ UNCHANGED <<user, effectActive, epoch, wsRef, isConnected, timers,
                       reconnectTimeoutRef, reconnectAttempts, lastError>>
        /\ UNCHANGED <<msgVars, chatVars, callVars, lastSend>>

\* The stop timer with handle id of view v elapses: handleTyping(false) of
\* the render that set it.
StopTimerFires(v, id) ==
    /\ \E t \in composer[v].stopTimers : t.id = id
    /\ CanRecord(wsRef)
    /\ LET t == CHOOSE t \in composer[v].stopTimers : t.id = id
       IN  /\ composer' = [composer EXCEPT ![v] =
                              handleTyping(v, [composer[v] EXCEPT !.stopTimers = @ \ {t}],
                                           t.conversationId, FALSE)]
           /\ sockets' = IF t.conversationId # NullRef
                         THEN TypingDelivered(t.conversationId, FALSE)
                         ELSE sockets
    /\ UNCHANGED <<user, effectActive, epoch, wsRef, isConnected, timers,
                   reconnectTimeoutRef, reconnectAttempts, lastError>>
    /\ UNCHANGED <<msgVars, chatVars, callVars, lastSend>>

\* The view unmounts: the cleanup effect clears the timer typingTimeoutRef
\* holds, and the component state is gone.
Unmount(v) ==
    /\ composer[v].typingTimeoutRef # NullRef
    /\ composer' = [composer EXCEPT ![v] =
                       [NoComposer EXCEPT
                           !.stopTimers = {t \in composer[v].stopTimers :
                                              t.id # composer[v].typingTimeoutRef},
                           !.owed = composer[v].owed]]
    /\ UNCHANGED <<connVars, msgVars, chatVars, callVars, lastSend>>

\* ------------------------------------------------ chat views: send message
NoSend ==
    [view |-> "none", receiverId |-> NullRef, content |-> "",
     realtime |-> "none", posted |-> FALSE]

\* handleSendMessage of view v with the selected peer and the message text of
\* its render (no files selected).  Inside one try block: sendMessage when
\* isConnected, then sendMessageMutation.mutateAsync, which issues
\* POST /api/messages; an exception of sendMessage leaves the block.
handleSendMessage(v, receiverId, content) ==
    LET call == [NoSend EXCEPT !.view = v, !.receiverId = receiverId,
                               !.content = content]
    IN  /\ IF receiverId = NullRef \/ content = ""
           THEN /\ lastSend' = call
                /\ UNCHANGED <<sockets, lastError>>
           ELSE IF ~isConnected
           THEN /\ lastSend' = [call EXCEPT !.realtime = "skipped", !.posted = TRUE]
                /\ UNCHANGED <<sockets, lastError>>
           ELSE IF ~IsOpen(wsRef)
           THEN /\ lastSend' = [call EXCEPT !.realtime = "threw"]
                /\ lastError' = "NotConnected"
                /\ UNCHANGED sockets
           ELSE /\ CanRecord(wsRef)
                /\ lastSend' = [call EXCEPT !.realtime = "sent", !.posted = TRUE]
                /\ lastError' = "none"
                /\ sockets' = Transmit(sockets, wsRef,
                                       [type |-> "message",
                                        data |-> [receiverId |-> receiverId,
                                                  content |-> content]])
        /\ UNCHANGED <<user, effectActive, epoch, wsRef, isConnected, timers,
                       reconnectTimeoutRef, reconnectAttempts>>
        /\ UNCHANGED <<msgVars, chatVars, callVars, composer>>

\* ------------------------------------------------- video call: the modal
\* VideoCallButton owns isVideoCallOpen and callType and passes them to
\* VideoCallModal as isOpen and callType.  Every function of the modal is
\* created anew by each render and closes over that render's state, so a
\* handler installed on a WebSocket or a peer connection keeps the values of
\* the render that ran initializeMedia.  Each opening of the modal is a flow:
\* it runs initializeMedia at most once, and that run acquires at most one
\* media stream and one signaling WebSocket, both named by the flow.

NoModalState ==
    [localStream |-> NullRef, peerConnection |-> NullRef,
     websocket |-> NullRef, callId |-> NullRef, isCallActive |-> FALSE]

\* The state and props one render's functions close over.
Snapshot(m, type) ==
    [localStream |-> m.localStream, peerConnection |-> m.peerConnection,
     websocket |-> m.websocket, callId |-> m.callId, callType |-> type]

\* What the cleanup of the media effect reads of its render.
EffectValues(m) == [Snapshot(m, "outgoing") EXCEPT !.callId = NullRef]

NoFlow ==
    [phase |-> "none", snap |-> Snapshot(NoModalState, "outgoing"),
     streamLive |-> FALSE, readyState |-> "NONE", sent |-> <<>>,
     received |-> <<>>, accepted |-> FALSE, answered |-> FALSE, over |-> FALSE]

NoPc ==
    [state |-> "none", flow |-> NullRef, role |-> "none",
     localDescription |-> "none", remoteDescription |-> "none",
     applied |-> <<>>, early |-> <<>>, descriptionSent |-> FALSE,
     connectionState |-> "new", gathered |-> 0]

World ==
    [isOpen |-> isVideoCallOpen, callType |-> callType, modal |-> modal,
     effectSnap |-> effectSnap, flows |-> flows, pcs |-> pcs]

\* A closed peer connection and a flow whose socket has closed and whose
\* handlers can no longer run are inert: what they held is dropped.
ClosedPc == [NoPc EXCEPT !.state = "closed"]
Inert(w, f) ==
    /\ w.flows[f].readyState = "CLOSED"
    /\ \A q \in Pcs : w.pcs[q].state = "open" => w.pcs[q].flow # f
Collected(w) ==
    [w EXCEPT !.pcs = [q \in Pcs |-> IF w.pcs[q].state = "closed" THEN ClosedPc ELSE w.pcs[q]],
              !.flows = [f \in Flows |->
                            IF Inert(w, f)
                            THEN [NoFlow EXCEPT !.phase = w.flows[f].phase,
                                                !.readyState = "CLOSED",
                                                !.streamLive = w.flows[f].streamLive]
                            ELSE w.flows[f]]]

Commit(w) ==
    LET c == Collected(w) IN
    /\ isVideoCallOpen' = c.isOpen
    /\ callType' = c.callType
    /\ modal' = c.modal
    /\ effectSnap' = c.effectSnap
    /\ flows' = c.flows
    /\ pcs' = c.pcs
    /\ UNCHANGED notCall

FreeFlows == {f \in Flows : flows[f].phase = "none"}
\* The flow of the opening in progress: the one that rings, else a new one.
Unstarted(w) == {f \in Flows : w.flows[f].phase \in {"none", "ringing"}}
NewFlow(w) == CHOOSE f \in Unstarted(w) : \A g \in Unstarted(w) : f <= g
FreePcs == {q \in Pcs : pcs[q].state = "none"}
NewPc == CHOOSE q \in FreePcs : \A r \in FreePcs : q <= r

Range(seq) == {seq[i] : i \in 1..Len(seq)}

\* websocket.send(JSON.stringify(envelope)): the envelope leaves only through
\* an OPEN socket; a socket that is closing or closed discards it.
wsSend(w, k, envelope) ==
    IF w.flows[k].readyState = "OPEN"
    THEN [w EXCEPT !.flows[k].sent = Append(@, envelope)]
    ELSE w

\* websocket.close()
wsClose(w, k) ==
    IF w.flows[k].readyState \in {"CONNECTING", "OPEN"}
    THEN [w EXCEPT !.flows[k].readyState = "CLOSING"]
    ELSE w

\* cleanupMedia of the render whose values are s.
cleanupMedia(w, s) ==
    LET w1 == IF s.localStream # NullRef
              THEN [w EXCEPT !.flows[s.localStream].streamLive = FALSE,
                             !.modal.localStream = NullRef]
              ELSE w
        w2 == IF s.peerConnection # NullRef
              THEN [w1 EXCEPT !.pcs[s.peerConnection].state = "closed",
                              !.modal.peerConnection = NullRef]
              ELSE w1
        w3 == IF s.websocket # NullRef
              THEN [wsClose(w2, s.websocket) EXCEPT !.modal.websocket = NullRef]
              ELSE w2
    IN [w3 EXCEPT !.modal.isCallActive = FALSE]

\* initializeMedia of the render whose values are s, up to its await of
\* getUserMedia.
initializeMedia(w, s) ==
    [w EXCEPT !.flows[NewFlow(w)] = [NoFlow EXCEPT !.phase = "media", !.snap = s]]

\* The parent sets isVideoCallOpen / callType and the modal renders.  When a
\* dependency of the media effect changed, the cleanup registered by the
\* previous run executes with that run's values and the effect runs again.
rendered(w, open, type) ==
    IF open = w.isOpen /\ type = w.callType
    THEN w
    ELSE LET s  == Snapshot(w.modal, type)
             w1 == cleanupMedia([w EXCEPT !.isOpen = open, !.callType = type,
                                          !.effectSnap = EffectValues(w.modal)],
                                w.effectSnap)
         IN IF open /\ type = "outgoing" THEN initializeMedia(w1, s) ELSE w1

\* onClose; an opening that was never accepted is over.
onClose(w) ==
    rendered([w EXCEPT !.flows = [f \in Flows |-> IF w.flows[f].phase = "ringing"
                                                  THEN [NoFlow EXCEPT !.phase = "declined"]
                                                  ELSE w.flows[f]]],
             FALSE, w.callType)

\* endCall of the render whose values are s.
endCall(w, s) == onClose(cleanupMedia(w, s))

\* VideoCallButton.handleStartVideoCall.  The call button lies under the
\* modal dialog while the dialog is open.
handleStartVideoCall ==
    /\ user # NoUser
    /\ user # OtherUser
    /\ ~isVideoCallOpen
    /\ FreeFlows # {}
    /\ Commit(rendered(World, TRUE, "outgoing"))

\* The modal is shown for a call that rings (isOpen with callType 'incoming').
IncomingCall ==
    /\ ~isVideoCallOpen
    /\ FreeFlows # {}
    /\ Commit(rendered([World EXCEPT !.flows[NewFlow(World)].phase = "ringing"],
                       TRUE, "incoming"))

\* handleAcceptCall: onAcceptCall() is VideoCallButton.handleAcceptCall.
handleAcceptCall ==
    /\ isVideoCallOpen
    /\ callType = "incoming"
    /\ ~modal.isCallActive
    /\ Commit(rendered(initializeMedia(World, Snapshot(modal, callType)), TRUE, "active"))

RejectEnvelope == [type |-> "reject_call", callId |-> modal.callId, targetUserId |-> OtherUser]
EndEnvelope == [type |-> "end_call", callId |-> modal.callId, targetUserId |-> OtherUser]

handleRejectCall ==
    /\ isVideoCallOpen
    /\ callType = "incoming"
    /\ ~modal.isCallActive
    /\ LET w1 == IF modal.websocket # NullRef /\ modal.callId # NullRef
                 THEN wsSend(World, modal.websocket, RejectEnvelope)
                 ELSE World
       IN Commit(onClose(w1))

handleEndCall ==
    /\ isVideoCallOpen
    /\ modal.isCallActive \/ callType = "outgoing"
    /\ LET w1 == IF modal.websocket # NullRef /\ modal.callId # NullRef
                 THEN wsSend(World, modal.websocket, EndEnvelope)
                 ELSE World
       IN Commit(endCall(w1, Snapshot(modal, callType)))

\* The dialog's close button and onOpenChange.
CloseDialog ==
    /\ isVideoCallOpen
    /\ Commit(onClose(World))

\* getUserMedia resolves: setLocalStream(stream), then initializeWebRTC
\* creates the signaling WebSocket.
MediaGranted(f) ==
    /\ flows[f].phase = "media"
    /\ Commit([World EXCEPT !.flows[f].phase = "signaling",
                            !.flows[f].streamLive = TRUE,
                            !.flows[f].readyState = "CONNECTING",
                            !.modal.localStream = f])

\* A setup that goes on to signaling although getUserMedia rejected.
MediaDeniedConnects(f) ==
    /\ flows[f].phase = "media"
    /\ Commit(onClose([World EXCEPT !.flows[f].phase = "denied",
                                    !.flows[f].readyState = "CONNECTING"]))

\* getUserMedia rejects: the catch block calls onClose().
MediaDenied(f) ==
    /\ flows[f].phase = "media"
    /\ Commit(onClose([World EXCEPT !.flows[f].phase = "denied"]))

CreateEnvelope(newCallId) ==
    [type |-> "create_video_call", callId |-> newCallId,
     targetUserId |-> OtherUser, userId |-> user]

\* ws.onopen: a fresh callId is generated for this socket.
CallWsOpen(f) ==
    /\ flows[f].readyState = "CONNECTING"
    /\ LET w1 == [World EXCEPT !.flows[f].readyState = "OPEN",
                               !.modal.websocket = f,
                               !.modal.callId = f]
       IN Commit(wsSend(w1, f, CreateEnvelope(f)))

\* ws.onclose
CallWsClose(f) ==
    /\ flows[f].readyState \in {"CONNECTING", "OPEN", "CLOSING"}
    /\ Commit([World EXCEPT !.flows[f].readyState = "CLOSED",
                            !.modal.websocket = NullRef])

\* createPeerConnection / handleIncomingCall up to their first await.
newPeerConnection(w, f, role) ==
    [w EXCEPT !.pcs[NewPc] = [NoPc EXCEPT !.state = "open", !.flow = f, !.role = role],
              !.modal.peerConnection = NewPc]

\* pc.setRemoteDescription(description)
setRemoteDescription(w, q, description) ==
    IF /\ w.pcs[q].state = "open"
       /\ w.pcs[q].remoteDescription = "none"
       /\ (description = "answer") = (w.pcs[q].localDescription = "offer")
    THEN [w EXCEPT !.pcs[q].remoteDescription = description,
                   !.pcs[q].early = w.flows[w.pcs[q].flow].received]
    ELSE w

\* pc.addIceCandidate(candidate): rejected without a remote description.
addIceCandidate(w, q, candidate) ==
    IF w.pcs[q].state = "open" /\ w.pcs[q].remoteDescription # "none"
    THEN [w EXCEPT !.pcs[q].applied = Append(@, candidate)]
    ELSE w

\* ws.onmessage of the flow's socket; peerConnection, callType and the
\* functions it calls are those of the render that started the flow.
CallWsMessage(f, data) ==
    /\ flows[f].readyState = "OPEN"
    /\ LET s == flows[f].snap IN
       CASE data.type = "call_accepted" ->
              /\ FreePcs # {}
              /\ Commit(newPeerConnection([World EXCEPT !.flows[f].accepted = TRUE],
                                          f, "caller"))
         [] data.type = "call_rejected" ->
              Commit(onClose([World EXCEPT !.flows[f].over = TRUE]))
         [] data.type = "call_ended" ->
              Commit(endCall([World EXCEPT !.flows[f].over = TRUE], s))
         [] data.type = "ice_candidate" ->
              /\ \A g \in Flows : data.candidate \notin Range(flows[g].received)
              /\ LET w1 == [World EXCEPT !.flows[f].received = Append(@, data.candidate)]
                 IN Commit(IF s.peerConnection # NullRef
                           THEN addIceCandidate(w1, s.peerConnection, data.candidate)
                           ELSE w1)
         [] data.type = "offer" ->
              IF s.callType = "incoming"
              THEN /\ FreePcs # {}
                   /\ Commit(setRemoteDescription(newPeerConnection(World, f, "callee"),
                                                  NewPc, "offer"))
              ELSE Commit(World)
         [] data.type = "answer" ->
              LET w1 == IF \E q \in Pcs : /\ pcs[q].flow = f
                                          /\ pcs[q].role = "caller"
                                          /\ pcs[q].localDescription = "offer"
                        THEN [World EXCEPT !.flows[f].answered = TRUE]
                        ELSE World
              IN Commit(IF s.peerConnection # NullRef
                        THEN setRemoteDescription(w1, s.peerConnection, "answer")
                        ELSE w1)

\* The rest of createPeerConnection: createOffer and setLocalDescription
\* resolved; websocket and callId are those of the render that started the
\* flow.
OfferCreated(q) ==
    /\ pcs[q].state = "open"
    /\ pcs[q].role = "caller"
    /\ pcs[q].localDescription = "none"
    /\ LET s  == flows[pcs[q].flow].snap
           w1 == [World EXCEPT !.pcs[q].localDescription = "offer"]
       IN Commit(IF s.websocket # NullRef
                 THEN [wsSend(w1, s.websocket,
                              [type |-> "offer", callId |-> s.callId, targetUserId |-> OtherUser])
                       EXCEPT !.pcs[q].descriptionSent = (flows[s.websocket].readyState = "OPEN")]
                 ELSE w1)

\* The rest of handleIncomingCall: createAnswer and setLocalDescription
\* resolved.
AnswerCreated(q) ==
    /\ pcs[q].state = "open"
    /\ pcs[q].role = "callee"
    /\ pcs[q].localDescription = "none"
    /\ LET s  == flows[pcs[q].flow].snap
           w1 == [World EXCEPT !.pcs[q].localDescription = "answer"]
       IN Commit(IF s.websocket # NullRef
                 THEN [wsSend(w1, s.websocket,
                              [type |-> "answer", callId |-> s.callId, targetUserId |-> OtherUser])
                       EXCEPT !.pcs[q].descriptionSent = (flows[s.websocket].readyState = "OPEN")]
                 ELSE w1)

\* pc.onicecandidate with a candidate: websocket and callId are those of the
\* render that started the flow.  gathered counts the candidates the
\* connection has discovered.
IceCandidateFound(q) ==
    /\ pcs[q].state = "open"
    /\ pcs[q].localDescription # "none"
    /\ pcs[q].gathered < MaxLocalCand
    /\ LET s  == flows[pcs[q].flow].snap
           w1 == [World EXCEPT !.pcs[q].gathered = @ + 1]
       IN Commit(IF s.websocket # NullRef
                 THEN wsSend(w1, s.websocket,
                             [type |-> "ice_candidate", callId |-> s.callId,
                              candidate |-> pcs[q].gathered + 1,
                              targetUserId |-> OtherUser])
                 ELSE w1)

\* pc.onconnectionstatechange with connectionState 'connected'.  The peers
\* can connect only when each holds the other's description.
PcConnected(q) ==
    /\ pcs[q].state = "open"
    /\ pcs[q].connectionState = "new"
    /\ pcs[q].localDescription # "none"
    /\ pcs[q].remoteDescription # "none"
    /\ pcs[q].descriptionSent
    /\ LET w1 == [World EXCEPT !.pcs[q].connectionState = "connected",
                               !.modal.isCallActive = TRUE]
       IN Commit(IF pcs[q].role = "caller"
                 THEN rendered(w1, w1.isOpen, "active")
                 ELSE w1)

\* pc.onconnectionstatechange with connectionState 'failed': the handler of
\* createPeerConnection sets the status text and shows a toast, the handler
\* of handleIncomingCall has no branch for it.
PcFailed(q) ==
    /\ pcs[q].state = "open"
    /\ pcs[q].localDescription # "none"
    /\ pcs[q].connectionState # "failed"
    /\ Commit([World EXCEPT !.pcs[q].connectionState = "failed"])

\* The screen the modal renders.
CallState ==
    IF ~isVideoCallOpen THEN "Closed"
    ELSE IF callType = "incoming" /\ ~modal.isCallActive THEN "Incoming"
    ELSE IF callType = "outgoing" /\ ~modal.isCallActive
         THEN IF \E q \in Pcs : pcs[q].state = "open" /\ pcs[q].role = "caller"
                                /\ modal.peerConnection = q
              THEN "Connecting" ELSE "Outgoing"
    ELSE "Active"

\* -------------------------------------------------------------- input sets
Frame(type, data) == [valid |-> TRUE, type |-> type, data |-> data]
Unparsable == [valid |-> FALSE, type |-> "", data |-> [payload |-> 0]]

PresenceFrames ==
    {Frame("user_list", [userIds |-> S]) : S \in SUBSET Peers}
    \cup {Frame("user_list", [payload |-> 0])}
    \cup {Frame("online", [userId |-> u]) : u \in Peers}
    \cup {Frame("offline", [userId |-> u]) : u \in Peers}
    \cup {Frame("user_status", [userId |-> u, status |-> s]) : u \in Peers, s \in EventStatuses}

TypingFrames ==
    {Frame("typing", [conversationId |-> c, userId |-> u, isTyping |-> b]) :
        c \in Convs, u \in Peers, b \in BOOLEAN}

DispatchFrames ==
    {Frame(t, [payload |-> p]) : t \in ForwardedTypes \cup OtherTypes, p \in Payloads}
    \cup {Frame("typing", [conversationId |-> 1, userId |-> 1, isTyping |-> TRUE])}
    \cup {Unparsable}

\* Envelopes of the signaling server.  An offer names the call the peer
\* created; the handlers read type, candidate, offer and answer only.
PeerCallId == MaxCall + 1
CallFrames ==
    {[type |-> t, callId |-> NullRef, candidate |-> NullRef] :
        t \in {"call_accepted", "call_rejected", "call_ended", "answer"}}
    \cup {[type |-> "offer", callId |-> PeerCallId, candidate |-> NullRef]}
    \cup {[type |-> "ice_candidate", callId |-> NullRef, candidate |-> c] : c \in Cands}

RegisteredTypes == {"new_message", "message_sent", "typing", "offer"}

\* ------------------------------------------------------------ specifications
Init ==
    /\ user \in {NoUser} \cup Users
    /\ effectActive = FALSE
    /\ epoch = 0
    /\ sockets = [k \in Slots |-> NoSocket]
    /\ wsRef = NullRef
    /\ isConnected = FALSE
    /\ timers = {}
    /\ reconnectTimeoutRef = NullRef
    /\ reconnectAttempts = 0
    /\ lastError = "none"
    /\ onlineUsers = {}
    /\ userStatuses = EmptyMap
    /\ typingUsers = EmptyMap
    /\ messageHandlers = EmptyMap
    /\ calls = <<>>
    /\ lastRegistration = [op |-> "none", type |-> "", handler |-> 0]
    /\ chatUser = NoUser
    /\ selectedFriend = NullRef
    /\ chatConversationId = <<>>
    /\ isVideoCallOpen = FALSE
    /\ callType = "outgoing"
    /\ modal = NoModalState
    /\ effectSnap = EffectValues(NoModalState)
    /\ flows = [f \in Flows |-> NoFlow]
    /\ pcs = [q \in Pcs |-> NoPc]
    /\ composer = [v \in Views |-> NoComposer]
    /\ lastSend = NoSend

\* Connection lifecycle: effect runs, transport events, reconnect timers.
NextConn ==
    \/ EffectMount
    \/ \E u \in {NoUser} \cup Users : EffectUserChange(u)
    \/ EffectCleanup
    \/ \E k \in Slots : OnOpen(k)
    \/ \E k \in Slots : OnClose(k)
    \/ \E t \in timers : ReconnectTimerFires(t)

SpecConn == Init /\ [][NextConn]_vars

\* The send operations over the life of one effect run.
NextSend ==
    \/ EffectMount
    \/ EffectCleanup
    \/ \E k \in Slots : OnOpen(k)
    \/ \E k \in Slots : OnClose(k)
    \/ \E t \in timers : ReconnectTimerFires(t)
    \/ \E r \in Peers : sendMessage(r, "hi")
    \/ \E c \in Convs, b \in BOOLEAN : sendTypingIndicator(c, b)
    \/ \E c \in Convs : sendReadReceipt(1, c)
    \/ sendStatusUpdate("away")
    \/ \E c \in Convs : joinConversation(c)
    \/ \E c \in Convs : leaveConversation(c)

SpecSend == Init /\ [][NextSend]_vars

\* One call button with its modal: local actions, media, signaling.
NextCall ==
    \/ handleStartVideoCall
    \/ IncomingCall
    \/ handleAcceptCall
    \/ handleRejectCall
    \/ handleEndCall
    \/ CloseDialog
    \/ \E f \in Flows : MediaGranted(f)
    \/ \E f \in Flows : MediaDenied(f)
    \/ \E f \in Flows : CallWsOpen(f)
    \/ \E f \in Flows : CallWsClose(f)
    \/ \E f \in Flows, data \in CallFrames : CallWsMessage(f, data)
    \/ \E q \in Pcs : OfferCreated(q)
    \/ \E q \in Pcs : AnswerCreated(q)
    \/ \E q \in Pcs : PcConnected(q)

SpecCall == Init /\ [][NextCall]_vars

\* Call setup up to the exchange of descriptions, with the peer connection
\* discovering local ICE candidates.
IceFrames == {data \in CallFrames : data.type \in {"call_accepted", "offer"}}
NextIce ==
    \/ handleStartVideoCall
    \/ IncomingCall
    \/ handleAcceptCall
    \/ handleEndCall
    \/ \E f \in Flows : MediaGranted(f)
    \/ \E f \in Flows : CallWsOpen(f)
    \/ \E f \in Flows : CallWsClose(f)
    \/ \E f \in Flows, data \in IceFrames : CallWsMessage(f, data)
    \/ \E q \in Pcs : OfferCreated(q)
    \/ \E q \in Pcs : AnswerCreated(q)
    \/ \E q \in Pcs : IceCandidateFound(q)

SpecIce == Init /\ [][NextIce]_vars

\* Call setup with a negotiation that connects or fails.
NextNegotiate ==
    \/ handleStartVideoCall
    \/ IncomingCall
    \/ handleAcceptCall
    \/ handleEndCall
    \/ \E f \in Flows : MediaGranted(f)
    \/ \E f \in Flows : CallWsOpen(f)
    \/ \E f \in Flows : CallWsClose(f)
    \/ \E f \in Flows, data \in IceFrames : CallWsMessage(f, data)
    \/ \E q \in Pcs : OfferCreated(q)
    \/ \E q \in Pcs : AnswerCreated(q)
    \/ \E q \in Pcs : PcConnected(q)
    \/ \E q \in Pcs : PcFailed(q)

SpecNegotiate == Init /\ [][NextNegotiate]_vars

\* The chat view derives its conversation id from the two participant ids.
NextChat ==
    \/ \E f \in {NullRef} \cup UserIds : SelectFriend(f)
    \/ \E u \in {NoUser} \cup UserIds : ChatUserChange(u)

SpecChat == Init /\ [][NextChat]_vars

\* Typing in the message input of the two chat views over a connection.
NextCompose ==
    \/ EffectMount
    \/ \E k \in Slots : OnOpen(k)
    \/ \E k \in Slots : OnClose(k)
    \/ \E v \in Views, c \in Convs : handleMessageChange(v, c)
    \/ \E v \in Views, id \in StopTimerIds : StopTimerFires(v, id)
    \/ \E v \in Views : Unmount(v)

SpecCompose == Init /\ [][NextCompose]_vars

\* Presence events on an open transport.
NextPresence ==
    \/ EffectMount
    \/ \E k \in Slots : OnOpen(k)
    \/ \E k \in Slots, f \in PresenceFrames : OnMessage(k, f)

SpecPresence == Init /\ [][NextPresence]_vars

\* Typing events over the life of one transport.
NextTyping ==
    \/ EffectMount
    \/ \E k \in Slots : OnOpen(k)
    \/ \E k \in Slots, f \in TypingFrames : OnMessage(k, f)
    \/ \E k \in Slots : OnClose(k)

SpecTyping == Init /\ [][NextTyping]_vars

\* Presence, typing and handler state across drops and reconnects of the
\* transport.
SurviveFrames ==
    {f \in PresenceFrames : f.type \in {"online", "user_status"} /\ f.data.userId = 1}
    \cup {f \in TypingFrames : f.data.conversationId = 1 /\ f.data.userId = 1}
NextSurvive ==
    \/ EffectMount
    \/ \E k \in Slots : OnOpen(k)
    \/ \E k \in Slots : OnClose(k)
    \/ \E t \in timers : ReconnectTimerFires(t)
    \/ \E k \in Slots, f \in SurviveFrames : OnMessage(k, f)
    \/ \E h \in Handlers : onMessage("new_message", h)
    \/ offMessage("new_message")

SpecSurvive == Init /\ [][NextSurvive]_vars

\* Sending chat messages from the two views while the transport opens,
\* closes and is replaced.
NextPersist ==
    \/ EffectMount
    \/ \E u \in {NoUser} \cup Users : EffectUserChange(u)
    \/ \E k \in Slots : OnOpen(k)
    \/ \E k \in Slots : OnClose(k)
    \/ \E t \in timers : ReconnectTimerFires(t)
    \/ \E v \in Views, r \in {NullRef, 1}, content \in {"", "hi"} :
          handleSendMessage(v, r, content)

SpecPersist == Init /\ [][NextPersist]_vars

\* Handler registration and dispatch on an open transport.
NextDispatch ==
    \/ EffectMount
    \/ \E k \in Slots : OnOpen(k)
    \/ \E t \in RegisteredTypes, h \in Handlers : onMessage(t, h)
    \/ \E t \in RegisteredTypes : offMessage(t)
    \/ \E k \in Slots, f \in DispatchFrames : OnMessage(k, f)

SpecDispatch == Init /\ [][NextDispatch]_vars

\* ================================================================== claims
Live == {"CONNECTING", "OPEN", "CLOSING"}

\* The close event of transport k is delivered in this step.
Closes(k) == sockets[k].state \in Live /\ sockets'[k].state = "CLOSED"

\* Transport k opens in this step.
Opens(k) == sockets[k].state = "CONNECTING" /\ sockets'[k].state = "OPEN"

\* The backoff table of the specification: 1000, 2000, 4000, 8000, 10000.
ExpectedDelay(n) ==
    CASE n = 0 -> 1000 [] n = 1 -> 2000 [] n = 2 -> 4000 [] n = 3 -> 8000 [] OTHER -> 10000

\* C1: a transport close that happens while the attempt counter is n < 5
\* schedules a reconnect timer whose delay is min(1000 * 2^n, 10000) ms.
C1_BackoffDelay ==
    [][\A k \in Slots :
          (Closes(k) /\ reconnectAttempts < 5)
          => \E t \in timers' \ timers :
                /\ t.delay = ExpectedDelay(reconnectAttempts)
                /\ reconnectTimeoutRef' = t.id]_vars

\* The capped case happened: the close at n = 4 scheduled a 10000 ms timer.
C1_Witness ==
    /\ reconnectAttempts = 4
    /\ \E t \in timers : t.delay = 10000 /\ reconnectTimeoutRef = t.id

\* C2: after the teardown (cleanup) of an effect run no reconnect timer of
\* that run is pending and its connect() is never invoked again, also when the
\* close event of the transport is delivered after the teardown.
C2_NoReconnectAfterTeardown ==
    /\ \A t \in timers : effectActive /\ t.ep = epoch
    /\ \A k \in Slots : ~sockets[k].stale

\* C3: once the attempt counter has reached 5 without a successful open, a
\* transport close schedules no reconnect timer, and when nothing is left (no
\* transport, no timer) the manager stays disconnected and creates no
\* transport, for as long as the effect is not re-run for another identity.
GaveUp ==
    /\ reconnectAttempts >= maxReconnectAttempts
    /\ timers = {}
    /\ \A k \in Slots : sockets[k].state \notin Live

C4_OpenResetsAttempts ==
    [][\A k \in Slots :
          Opens(k) => (reconnectAttempts' = 0
                       /\ ReconnectDelay(reconnectAttempts') = BaseDelayMs)]_vars

\* A reconnect of the first effect run succeeded: a timer had been scheduled,
\* it fired, and the transport it created is open with the counter back at 0.
C4_Witness ==
    /\ epoch = 1
    /\ effectActive
    /\ reconnectTimeoutRef # NullRef
    /\ timers = {}
    /\ IsOpen(wsRef)
    /\ reconnectAttempts = 0

\* C5: sendMessage on an absent or not-open transport fails with the
\* not-connected error and transmits nothing; on an open transport it
\* transmits exactly one 'message' envelope; and no step transmits on a
\* transport that is not open.
C5_SendOnlyWhenOpen ==
    [][/\ \A r \in Peers :
             sendMessage(r, "hi")
             => IF wsRef = NullRef \/ sockets[wsRef].state # "OPEN"
                THEN lastError' = "NotConnected" /\ sockets' = sockets
                ELSE /\ lastError' = "none"
                     /\ sockets' = [sockets EXCEPT ![wsRef].sent =
                           Append(@, [type |-> "message",
                                      data |-> [receiverId |-> r, content |-> "hi"]])]
       /\ \A k \in Slots :
             Len(sockets'[k].sent) > Len(sockets[k].sent) => sockets'[k].state = "OPEN"]_vars

\* A message was transmitted on the open transport, the transport was then
\* closed by the cleanup, and a later sendMessage failed as not connected.
C5_Witness ==
    /\ lastError = "NotConnected"
    /\ wsRef # NullRef
    /\ sockets[wsRef].state = "CLOSING"
    /\ Len(sockets[wsRef].sent) = 2
    /\ sockets[wsRef].sent[2].type = "message"

\* C6: when a transport opens, the first and only envelope sent on it so far
\* is a 'join' envelope carrying the id of the current user.
C6_JoinCarriesCurrentUser ==
    [][\A k \in Slots :
          Opens(k) => sockets'[k].sent = <<[type |-> "join", userId |-> user']>>]_vars

C8_OneHandlerPerType ==
    /\ [](/\ lastRegistration.op = "onMessage"
             => /\ lastRegistration.type \in DOMAIN messageHandlers
                /\ messageHandlers[lastRegistration.type] = lastRegistration.handler
          /\ lastRegistration.op = "offMessage"
             => lastRegistration.type \notin DOMAIN messageHandlers)
    /\ [][/\ \A o \in RegisteredTypes :
                (lastRegistration' # lastRegistration /\ o # lastRegistration'.type)
                => /\ (o \in DOMAIN messageHandlers') = (o \in DOMAIN messageHandlers)
                   /\ o \in DOMAIN messageHandlers => messageHandlers'[o] = messageHandlers[o]
          /\ \A k \in Slots, f \in DispatchFrames :
                (f.valid /\ f.type \in ForwardedTypes /\ f.type = lastRegistration.type
                 /\ OnMessage(k, f))
                => calls' = IF lastRegistration.op = "onMessage"
                            THEN <<[h |-> lastRegistration.handler, data |-> f.data]>>
                            ELSE <<>>]_vars

\* Two types hold different handlers and the latest envelope invoked the
\* second handler, the one registered last for new_message.
C8_Witness ==
    /\ "new_message" \in DOMAIN messageHandlers
    /\ "message_sent" \in DOMAIN messageHandlers
    /\ messageHandlers["new_message"] = 2
    /\ messageHandlers["message_sent"] = 1
    /\ lastRegistration = [op |-> "onMessage", type |-> "new_message", handler |-> 2]
    /\ calls = <<[h |-> 2, data |-> [payload |-> 1]]>>

\* C9: in the state right after an 'offline' event for user u, isUserOnline(u)
\* is false and getUserStatus(u) is 'offline'.
C9_OfflineClearsPresence ==
    [][\A k \in Slots, u \in Peers :
          OnMessage(k, Frame("offline", [userId |-> u]))
          => (~isUserOnline(u)' /\ getUserStatus(u)' = "offline")]_vars

\* A user went offline (explicit 'offline' status entry, not in the online
\* set) while another user is online with status 'away'.
C9_Witness ==
    \E u \in Peers, v \in Peers :
        /\ u # v
        /\ u \in DOMAIN userStatuses /\ userStatuses[u] = "offline"
        /\ ~isUserOnline(u) /\ getUserStatus(u) = "offline"
        /\ isUserOnline(v) /\ getUserStatus(v) = "away"

\* C10: after a 'user_list' event carrying the id set S the online set is
\* exactly S, and after one without userIds it is empty.
C10_RosterReplacesOnlineSet ==
    [][\A k \in Slots, f \in PresenceFrames :
          (f.type = "user_list" /\ OnMessage(k, f))
          => onlineUsers' = IF "userIds" \in DOMAIN f.data THEN f.data.userIds ELSE {}]_vars

\* The online set holds user 2 only while user 1, who has a status entry
\* 'online', is no longer in it.
C10_Witness ==
    /\ onlineUsers = {2}
    /\ 1 \in DOMAIN userStatuses
    /\ userStatuses[1] = "online"

\* C11: the conversation id computed for (a, b) equals the one computed for
\* (b, a): the id the view holds for (user, friend) is the id the peer's view
\* computes for (friend, user).
C11_ConversationIdSymmetric ==
    (selectedFriend # NullRef /\ chatUser # NoUser)
    => chatConversationId = ConversationId(selectedFriend, chatUser)

\* The view of user 17 holds the id of its conversation with user 3.
C11_Witness ==
    /\ chatUser = 17
    /\ selectedFriend = 3
    /\ chatConversationId # <<>>

\* C12: the conversation id is the smaller id, '_', the larger id, in numeric
\* ascending order.
C12_NumericAscending ==
    (selectedFriend # NullRef /\ chatUser # NoUser)
    => chatConversationId =
          NumberToString(Min(chatUser, selectedFriend)) \o <<"_">>
          \o NumberToString(IF chatUser < selectedFriend THEN selectedFriend ELSE chatUser)

\* C13: typing(true) adds the user to the conversation's typing set and is
\* idempotent, typing(false) removes the user; the typing sets of the other
\* conversations and the membership of the other users do not change.
C13_TypingAddRemove ==
    [][\A k \in Slots, f \in TypingFrames :
          OnMessage(k, f)
          => LET c == f.data.conversationId
                 u == f.data.userId
             IN  /\ f.data.isTyping
                    => /\ isUserTyping(c, u)'
                       /\ getTypingUsers(c)' = getTypingUsers(c) \cup {u}
                       /\ isUserTyping(c, u) => typingUsers' = typingUsers
                 /\ ~f.data.isTyping
                    => /\ ~isUserTyping(c, u)'
                       /\ getTypingUsers(c)' = getTypingUsers(c) \ {u}
                 /\ \A d \in Convs \ {c} : getTypingUsers(d)' = getTypingUsers(d)
                 /\ \A v \in Peers \ {u} : isUserTyping(c, v)' = isUserTyping(c, v)]_vars

\* Both users type in conversation 1 while only user 1 types in conversation 2.
C13_Witness ==
    /\ getTypingUsers(1) = {1, 2}
    /\ getTypingUsers(2) = {1}
    /\ isUserTyping(1, 2)
    /\ ~isUserTyping(2, 2)

\* The typing-expiry timers the registry has pending: setTimeout callbacks
\* that carry a conversation and a user.
TypingExpiryTimers(c, u) ==
    {t \in timers : "conversationId" \in DOMAIN t /\ "userId" \in DOMAIN t
                    /\ t.conversationId = c /\ t.userId = u}

\* C14: a user in a conversation's typing set is removed by expiry when no
\* further typing event arrives: while the user is in the set, the expiry of
\* that entry is pending.
C14_TypingEntryExpires ==
    \A c \in DOMAIN typingUsers :
        \A u \in typingUsers[c] : TypingExpiryTimers(c, u) # {}

\* ------------------------------------------------------------ call claims
OpenPcs == {q \in Pcs : pcs[q].state = "open"}
Sent(f) == flows[f].sent
SentTypes(f) == {Sent(f)[i].type : i \in 1..Len(Sent(f))}

\* C15: every ICE candidate that arrived on a call's socket before the remote
\* description of the call's peer connection was set has been applied to that
\* peer connection once the remote description is set; none is discarded.
C15_EarlyCandidatesApplied ==
    \A q \in OpenPcs :
        pcs[q].remoteDescription # "none"
            => Range(pcs[q].early) \subseteq Range(pcs[q].applied)

\* C16: once the remote description is set, the candidates applied to the
\* peer connection are exactly those received on the call's socket, in arrival
\* order: the early ones first-received first, every later one at once.
C16_AppliedInArrivalOrder ==
    \A q \in OpenPcs :
        pcs[q].remoteDescription # "none"
            => pcs[q].applied = flows[pcs[q].flow].received

\* C17: the call state changes only along the table.  Closed stands for
\* Idle, Ended and Failed, the states in which no call is shown.
TableTransitions ==
    {<<"Closed", "Outgoing">>, <<"Closed", "Incoming">>,
     <<"Outgoing", "Connecting">>, <<"Outgoing", "Closed">>,
     <<"Incoming", "Connecting">>, <<"Incoming", "Closed">>,
     <<"Connecting", "Active">>, <<"Connecting", "Closed">>,
     <<"Active", "Closed">>}
C17_OnlyTableTransitions ==
    [][CallState' # CallState => <<CallState, CallState'>> \in TableTransitions]_vars

\* C18: once the caller's createPeerConnection has produced its offer, an
\* 'offer' envelope with the callId of the call's create_video_call envelope
\* has been sent on the call's socket; and no 'offer' is sent on a socket
\* before call_accepted arrived on it.
C18_OfferFollowsAccept ==
    /\ \A q \in OpenPcs :
          (pcs[q].role = "caller" /\ pcs[q].localDescription = "offer")
              => \E i, j \in 1..Len(Sent(pcs[q].flow)) :
                    /\ Sent(pcs[q].flow)[i].type = "create_video_call"
                    /\ Sent(pcs[q].flow)[j].type = "offer"
                    /\ Sent(pcs[q].flow)[j].callId = Sent(pcs[q].flow)[i].callId
    /\ \A f \in Flows : "offer" \in SentTypes(f) => flows[f].accepted

\* C19: an 'answer' that arrived on the caller's socket after the call's peer
\* connection produced its offer is the remote description of that peer
\* connection.
C19_AnswerApplied ==
    \A q \in OpenPcs :
        (/\ pcs[q].role = "caller"
         /\ pcs[q].localDescription = "offer"
         /\ flows[pcs[q].flow].answered)
            => pcs[q].remoteDescription = "answer"

\* C20: a flow started by accepting an incoming call never sends
\* create_video_call, and once its peer connection has produced the answer an
\* 'answer' envelope with the callId of the received offer has been sent.
C20_AcceptAnswersOffer ==
    \A f \in Flows :
        (flows[f].phase = "signaling" /\ flows[f].snap.callType = "incoming")
            => /\ "create_video_call" \notin SentTypes(f)
               /\ \A q \in OpenPcs :
                     (pcs[q].flow = f /\ pcs[q].localDescription = "answer")
                         => \E j \in 1..Len(Sent(f)) :
                               /\ Sent(f)[j].type = "answer"
                               /\ Sent(f)[j].callId = PeerCallId

\* The flow of the modal's latest opening.
Started == {f \in Flows : flows[f].phase # "none"}
CurrentFlow == CHOOSE f \in Started : \A g \in Started : g <= f
\* The peer was told of the call of flow f.
Announced(f) == flows[f].readyState = "OPEN" /\ "create_video_call" \in SentTypes(f)
\* Envelopes that leave through the socket of flow f in this step.
SentNow(f) == {flows'[f].sent[i] : i \in (Len(flows[f].sent) + 1)..Len(flows'[f].sent)}
\* After the step the call of flow f holds no live track, no open peer
\* connection and no transport that is open or opening.
Released(f) ==
    /\ ~flows'[f].streamLive
    /\ flows'[f].readyState \notin {"CONNECTING", "OPEN"}
    /\ \A q \in Pcs : pcs[q].flow = f => pcs'[q].state # "open"

\* C21: when the callee rejects the call that rings, a reject_call envelope
\* leaves through a signaling socket and the modal closes.
C21_RejectSendsEnvelope ==
    [][handleRejectCall
         => /\ \E f \in Flows : \E e \in SentNow(f) : e.type = "reject_call"
            /\ ~isVideoCallOpen']_vars

\* C22: ending the call from the modal (state Outgoing, Connecting or Active)
\* sends end_call with the call's callId when the peer was told of the call,
\* and leaves no track live, no peer connection open and no transport open or
\* opening.
C22_EndCallTearsDown ==
    [][handleEndCall
         => /\ Announced(CurrentFlow)
                  => \E e \in SentNow(CurrentFlow) :
                        e.type = "end_call" /\ e.callId = CurrentFlow
            /\ Released(CurrentFlow)]_vars

\* C23: call_rejected or call_ended received on the socket of the call that
\* is shown closes the call and leaves no track live, no peer connection open
\* and no transport open.
C23_RemoteEndReleases ==
    [][\A t \in {"call_rejected", "call_ended"} :
          (/\ isVideoCallOpen
           /\ CallWsMessage(CurrentFlow, [type |-> t, callId |-> NullRef, candidate |-> NullRef]))
              => ~isVideoCallOpen' /\ Released(CurrentFlow)]_vars

LiveSessions ==
    {f \in Flows : /\ Announced(f)
                   /\ "end_call" \notin SentTypes(f)
                   /\ ~flows[f].over}

\* C25: at most one call session exists at any time.
C25_AtMostOneSession == Cardinality(LiveSessions) <= 1

\* C26: no conversation key of the typing registry maps to an empty set; after
\* typing(false) for the last typing user of a conversation, or for a
\* conversation that has no entry, the conversation has no entry.
C26_NoEmptyTypingEntry ==
    /\ [](\A c \in DOMAIN typingUsers : typingUsers[c] # {})
    /\ [][\A k \in Slots, c \in Convs, u \in Peers :
            (/\ OnMessage(k, Frame("typing", [conversationId |-> c, userId |-> u,
                                              isTyping |-> FALSE]))
             /\ getTypingUsers(c) \subseteq {u})
               => c \notin DOMAIN typingUsers']_vars

\* Conversation 1 has no entry while users 1 and 3 type in conversation 2.
C26_Witness ==
    /\ 1 \notin DOMAIN typingUsers
    /\ 2 \in DOMAIN typingUsers
    /\ typingUsers[2] = {1, 3}

\* C27: an 'online' or 'offline' event for user u leaves isUserOnline(v) and
\* getUserStatus(v) of every other user v unchanged, and an 'online' event
\* leaves every status entry unchanged, that of u included.
C27_PresenceEventFrame ==
    [][\A k \in Slots, u \in Peers :
          /\ OnMessage(k, Frame("online", [userId |-> u]))
                => /\ userStatuses' = userStatuses
                   /\ \A v \in Peers \ {u} : isUserOnline(v)' = isUserOnline(v)
          /\ OnMessage(k, Frame("offline", [userId |-> u]))
                => \A v \in Peers \ {u} :
                      /\ isUserOnline(v)' = isUserOnline(v)
                      /\ getUserStatus(v)' = getUserStatus(v)]_vars

\* User u is online again and still has the status entry 'offline' of an
\* earlier 'offline' event, while user v is online with status 'away'.
C27_Witness ==
    \E u \in Peers, v \in Peers :
        /\ u # v
        /\ isUserOnline(u)
        /\ u \in DOMAIN userStatuses /\ userStatuses[u] = "offline"
        /\ isUserOnline(v) /\ getUserStatus(v) = "away"

\* C28: a 'user_status' event for user u sets getUserStatus(u) to the event's
\* status whether or not u is online, and leaves the online set and the status
\* of every other user unchanged; a user without a status entry has status
\* 'offline'.
C28_StatusEventFrame ==
    /\ [][\A k \in Slots, u \in Peers, st \in EventStatuses :
            OnMessage(k, Frame("user_status", [userId |-> u, status |-> st]))
            => /\ getUserStatus(u)' = st
               /\ onlineUsers' = onlineUsers
               /\ \A v \in Peers \ {u} : getUserStatus(v)' = getUserStatus(v)]_vars
    /\ [](\A v \in Peers : v \notin DOMAIN userStatuses => getUserStatus(v) = "offline")

\* User u has status 'away' without being online, while user v is online
\* without a status entry.
C28_Witness ==
    \E u \in Peers, v \in Peers :
        /\ ~isUserOnline(u) /\ getUserStatus(u) = "away"
        /\ isUserOnline(v) /\ v \notin DOMAIN userStatuses

\* The typing(true) and typing(false) calls of the burst under way in view v.
TypingCalls(v, b) == {i \in 1..Len(composer[v].calls) : composer[v].calls[i] = b}

\* C29: in both chat views a burst of keystrokes makes exactly one
\* typing(true) call, at its first keystroke, keeps at most one stop timer
\* pending, which is set to 2000 ms, and makes at most one typing(false) call,
\* after which no stop timer is pending.
C29_OneTypingPerBurst ==
    \A v \in Views :
        /\ composer[v].keys >= 1
              => /\ Cardinality(TypingCalls(v, TRUE)) = 1
                 /\ composer[v].calls[1] = TRUE
        /\ Cardinality(composer[v].stopTimers) <= 1
        /\ \A t \in composer[v].stopTimers : t.delay = 2000
        /\ Cardinality(TypingCalls(v, FALSE)) <= 1
        /\ TypingCalls(v, FALSE) # {}
              => /\ composer[v].stopTimers = {}
                 /\ composer[v].calls[Len(composer[v].calls)] = FALSE

\* C30: every ICE candidate a peer connection discovers leaves as an
\* ice_candidate envelope that carries a callId and the peer's user id.
C30_LocalCandidateSent ==
    [][\A q \in Pcs :
          IceCandidateFound(q)
          => \E f \in Flows : \E e \in SentNow(f) :
                /\ e.type = "ice_candidate"
                /\ e.callId # NullRef
                /\ e.targetUserId = OtherUser]_vars

\* C31: when the peer connection of the call that is shown reports 'failed'
\* while the call is Connecting or Active, the call leaves the screen and no
\* track stays live, no peer connection open and no transport open.
C31_FailureReleases ==
    [][\A q \in Pcs :
          (/\ PcFailed(q)
           /\ pcs[q].flow = CurrentFlow
           /\ CallState \in {"Connecting", "Active"})
          => ~isVideoCallOpen' /\ Released(CurrentFlow)]_vars

\* The handling of call_accepted or of an offer on the socket of flow f has
\* created a peer connection and still awaits createOffer / createAnswer and
\* setLocalDescription.
HandlingPending(f) ==
    \E q \in Pcs : /\ pcs[q].state = "open"
                    /\ pcs[q].flow = f
                    /\ pcs[q].localDescription = "none"

\* C32: the handling of an envelope of the call-signaling socket begins only
\* when the handling of the envelopes before it, asynchronous steps included,
\* is complete.
C32_OneEnvelopeAtATime ==
    [][\A f \in Flows, data \in CallFrames :
          CallWsMessage(f, data) => ~HandlingPending(f)]_vars

\* C33: a frame that does not parse, or an envelope of a type handleMessage
\* does not know, leaves the connection, the online set, the status map, the
\* typing registry and the handler table unchanged, and the transport it came
\* from is still open for the next envelope.
C33_BadFrameDropped ==
    [][\A k \in Slots, f \in DispatchFrames :
          (/\ ~f.valid \/ f.type \in OtherTypes
           /\ OnMessage(k, f))
          => /\ UNCHANGED <<connVars, onlineUsers, userStatuses, typingUsers,
                            messageHandlers>>
             /\ sockets'[k].state = "OPEN"
             /\ calls' = <<>>]_vars

\* The transport is open, a handler is registered and a user types, and the
\* latest frame invoked no handler.
C33_Witness ==
    /\ IsOpen(wsRef)
    /\ isConnected
    /\ messageHandlers # EmptyMap
    /\ typingUsers # EmptyMap
    /\ calls = <<>>

\* C34: at most one transport of the manager is open or connecting and at
\* most one reconnect timer is pending.
C34_OneTransportOneTimer ==
    /\ Cardinality({k \in Slots : sockets[k].state \in {"CONNECTING", "OPEN"}}) <= 1
    /\ Cardinality(timers) <= 1

\* C35: isConnected is true exactly when wsRef.current is an open transport.
C35_FlagMatchesTransport == isConnected <=> IsOpen(wsRef)

\* C36: the reconnect attempt counter stays between 0 and
\* maxReconnectAttempts.
C36_AttemptsBounded ==
    reconnectAttempts >= 0 /\ reconnectAttempts <= maxReconnectAttempts

\* What the hook knows of the peers, and its handler table.
PeerState == <<onlineUsers, userStatuses, typingUsers, messageHandlers>>

\* C37: the close of a transport, a reconnect attempt and the open of a
\* transport leave the online set, the status map, the typing registry and
\* the handler table unchanged; these change only in the handling of an
\* inbound frame or in an onMessage / offMessage call.
C37_PeerStateSurvivesReconnect ==
    [][/\ ((\E k \in Slots : OnClose(k) \/ OnOpen(k))
            \/ (\E t \in timers : ReconnectTimerFires(t)))
          => PeerState' = PeerState
       /\ PeerState' # PeerState
          => \/ \E k \in Slots, f \in SurviveFrames : OnMessage(k, f)
             \/ \E h \in Handlers : onMessage("new_message", h)
             \/ offMessage("new_message")]_vars

\* The first transport has closed and the second is open after a reconnect,
\* while user 1 is online with status 'away' and typing, and a handler is
\* registered.
C37_Witness ==
    /\ wsRef = 2 /\ IsOpen(wsRef)
    /\ sockets[2].sent = <<[type |-> "join", userId |-> user]>>
    /\ sockets[1] = ClosedSocket
    /\ onlineUsers = {1}
    /\ getUserStatus(1) = "away"
    /\ isUserTyping(1, 1)
    /\ messageHandlers # EmptyMap

\* C38: a handleSendMessage call with a selected peer and a non-empty text
\* issues the POST /api/messages request, whatever the connection state.
C38_SendAlwaysPersists ==
    (lastSend.receiverId # NullRef /\ lastSend.content # "") => lastSend.posted

\* C39: while the latest typing envelope a view transmitted for a
\* conversation says true, the view has a stop timer pending for that
\* conversation, so that typing(false) follows without further input.
C39_TypingTrueWillBeCleared ==
    \A v \in Views : \A c \in composer[v].owed :
        \E t \in composer[v].stopTimers : t.conversationId = c

====
